---- MODULE Spec2Model ----
(***************************************************************************)
(* node-frame: the route table (App), the dispatcher (RequestHandler) and  *)
(* the request/response extensions.                                        *)
(*                                                                         *)
(* Strings that the code inspects character by character (route patterns   *)
(* and request urls) are sequences of one-character strings.  Handlers are *)
(* opaque functions for the framework; here they are names with a fixed    *)
(* behaviour (HandlerKind).                                                *)
(***************************************************************************)
EXTENDS Integers, Sequences, FiniteSets, TLC

VARIABLES
    middlewares,  \* App.middlewares: sequence of handler names
    routes,       \* App.routes: method -> sequence of [path, handlers], in key order
    useLog,       \* history: every middleware passed to use(), in order
    regLog,       \* history: per method, its registration calls in order
    \* What the last step did when it was handle(); the request and response
    \* objects live for one request, so after any other step these are idle.
    req,          \* the request given to handle(), or NoReq
    params,       \* req.params when handle() ended
    res,          \* the response object when handle() ended
    invoked,      \* the handlers handle() called, in order
    selected,     \* the pattern findPathHandlers() returned on, or NoPath
    outcome,      \* how handle() ended: "returned" or "threw"; else "idle"
    jsonCall,     \* the last res.json call: its argument, the response before it
                  \* and whether it threw; NoCall when there was none
    earlier       \* history: what the first request served by the route table
                  \* as it stands got, once a later one has been served

vars == <<middlewares, routes, useLog, regLog, req, params, res, invoked,
          selected, outcome, jsonCall, earlier>>

appVars == <<middlewares, routes, useLog, regLog>>
reqVars == <<req, params, res, invoked, selected, outcome, jsonCall>>

(***************************************************************************)
(* Bounds and input sets.                                                  *)
(***************************************************************************)
\* The number of use() and registration calls a behaviour makes.
MaxCalls == 3

\* The number of characters after the leading '/' of the patterns and urls
\* the matcher is tried on.
MaxTail == 3

\* The keys of the route table built by the constructor.
Methods == {"GET", "POST", "PATCH", "DELETE", "PUT", "HEAD", "OPTIONS"}

\* Request methods: the seven keys and one that is no key of the table.
ReqMethods == Methods \cup {"TRACE"}

\* Route patterns the application registers.
PA   == <<"/", "a">>                      \* /a
PX   == <<"/", ":", "x">>                 \* /:x
PXY  == <<"/", ":", "x", "/", ":", "y">>  \* /:x/:y
PXX  == <<"/", ":", "x", "/", ":", "x">>  \* /:x/:x
PAB  == <<"/", "a", ":", "b">>            \* /a:b
PDOT == <<"/", "a", ".">>                 \* /a.

\* Request urls.
UA   == <<"/", "a">>                      \* /a
UAB  == <<"/", "a", "b">>                 \* /ab
UASB == <<"/", "a", "/", "b">>            \* /a/b

NoReq == [method |-> "none", url |-> <<>>]
NoPath == <<>>

\* No request has been recorded.
NoEarlier ==
    [req |-> NoReq, params |-> {},
     res |-> [statusCode |-> 0, ended |-> FALSE, body |-> "", contentType |-> "none"],
     invoked |-> <<>>, selected |-> NoPath, outcome |-> "idle"]

(***************************************************************************)
(* Sequence helpers.                                                       *)
(***************************************************************************)
Range(s) == {s[i] : i \in 1..Len(s)}

Min(S) == CHOOSE x \in S : \A y \in S : x <= y

Max(S) == CHOOSE x \in S : \A y \in S : x >= y

(***************************************************************************)
(* findPathHandlers: the pattern's translation to a regular expression.    *)
(* path.replace(/:([^/]+)/g, ...) scans the pattern from the left; at a    *)
(* ':' followed by at least one character other than '/', the ':' and the  *)
(* whole run of such characters are replaced by the group ([^/]+) and the  *)
(* run is pushed on paramNames.  Every other character reaches the RegExp  *)
(* as it is: '.' there is the wildcard, '*' repeats the atom before it     *)
(* zero or more times, and the other characters of the alphabet used here  *)
(* stand for themselves.                                                   *)
(***************************************************************************)
\* The end of the run of characters other than '/' that starts at i.
RECURSIVE RunEnd(_, _)
RunEnd(s, i) ==
    IF i > Len(s) \/ s[i] = "/" THEN i - 1 ELSE RunEnd(s, i + 1)

RECURSIVE Tokens(_, _)
Tokens(path, i) ==
    IF i > Len(path) THEN <<>>
    ELSE IF path[i] = ":" /\ i < Len(path) /\ path[i + 1] # "/"
         THEN <<[k |-> "group", name |-> SubSeq(path, i + 1, RunEnd(path, i + 1))]>>
              \o Tokens(path, RunEnd(path, i + 1) + 1)
         ELSE IF path[i] = "."
              THEN <<[k |-> "any", name |-> <<>>]>> \o Tokens(path, i + 1)
              ELSE IF path[i] = "*"
                   THEN <<[k |-> "star", name |-> <<>>]>> \o Tokens(path, i + 1)
                   ELSE <<[k |-> "lit", name |-> <<path[i]>>]>>
                        \o Tokens(path, i + 1)

\* new RegExp(`^${regexPath}$`): the atoms of the expression, each with its
\* quantifier.  A '*' with no atom before it, or after another '*', is a
\* SyntaxError ("nothing to repeat"): ok is FALSE then.
RECURSIVE Atoms(_, _, _)
Atoms(toks, i, acc) ==
    IF i > Len(toks) THEN [ok |-> TRUE, atoms |-> acc]
    ELSE IF toks[i].k = "star"
         THEN IF acc = <<>> \/ acc[Len(acc)].star
              THEN [ok |-> FALSE, atoms |-> <<>>]
              ELSE Atoms(toks, i + 1, [acc EXCEPT ![Len(acc)].star = TRUE])
         ELSE Atoms(toks, i + 1,
                    Append(acc, [k |-> toks[i].k, name |-> toks[i].name,
                                 star |-> FALSE]))

\* The regular expression ^regexPath$.
RegexOf(path) == Atoms(Tokens(path, 1), 1, <<>>)

\* new RegExp throws for this pattern.
RegExpThrows(path) == ~RegexOf(path).ok

\* paramNames, in the order the replace callback pushed them.
RECURSIVE GroupNames(_)
GroupNames(toks) ==
    IF toks = <<>> THEN <<>>
    ELSE (IF Head(toks).k = "group" THEN <<Head(toks).name>> ELSE <<>>)
         \o GroupNames(Tail(toks))

ParamNamesOf(path) == GroupNames(Tokens(path, 1))

(***************************************************************************)
(* url.match(regex): a backtracking match anchored at both ends.  A group  *)
(* is greedy: it takes the longest run of characters other than '/' with   *)
(* which the rest of the expression still matches; so is a starred atom.   *)
(* (A group is never starred: a '*' after ':name' is part of the name.)    *)
(* The result is [ok, caps]: caps are match[1], match[2], ...              *)
(***************************************************************************)
NoMatch == [ok |-> FALSE, caps |-> <<>>]

\* The atom matches the character c.
AtomOk(atom, c) == atom.k = "any" \/ atom.name = <<c>>

\* How many characters from url[j] on the atom matches in a row.
RECURSIVE StarMax(_, _, _)
StarMax(atom, url, j) ==
    IF j > Len(url) \/ ~AtomOk(atom, url[j]) THEN 0
    ELSE 1 + StarMax(atom, url, j + 1)

RECURSIVE MatchFrom(_, _, _, _)
RECURSIVE GroupTry(_, _, _, _, _)
RECURSIVE StarTry(_, _, _, _, _)

\* The starred atom toks[i] takes n characters; on failure one fewer.
StarTry(toks, i, url, j, n) ==
    IF n < 0 THEN NoMatch
    ELSE LET rest == MatchFrom(toks, i + 1, url, j + n)
         IN  IF rest.ok THEN rest ELSE StarTry(toks, i, url, j, n - 1)

\* The group toks[i] takes url[j .. j+n-1]; on failure it gives one back.
GroupTry(toks, i, url, j, n) ==
    IF n < 1 THEN NoMatch
    ELSE LET rest == MatchFrom(toks, i + 1, url, j + n)
         IN  IF rest.ok
             THEN [ok |-> TRUE, caps |-> <<SubSeq(url, j, j + n - 1)>> \o rest.caps]
             ELSE GroupTry(toks, i, url, j, n - 1)

MatchFrom(toks, i, url, j) ==
    IF i > Len(toks) THEN [ok |-> j > Len(url), caps |-> <<>>]
    ELSE IF toks[i].k = "group"
         THEN GroupTry(toks, i, url, j, RunEnd(url, j) - j + 1)
         ELSE IF toks[i].star
              THEN StarTry(toks, i, url, j, StarMax(toks[i], url, j))
              ELSE IF j <= Len(url) /\ AtomOk(toks[i], url[j])
                   THEN MatchFrom(toks, i + 1, url, j + 1)
                   ELSE NoMatch

UrlMatch(path, url) ==
    IF RegExpThrows(path) THEN NoMatch
    ELSE MatchFrom(RegexOf(path).atoms, 1, url, 1)

(***************************************************************************)
(* req.params: a Map from names to values, kept as a set of <<name, value>> *)
(* pairs with at most one pair for a name.                                 *)
(***************************************************************************)
EmptyMap == {}

MapKeys(m) == {e[1] : e \in m}

MapGet(m, k) == (CHOOSE e \in m : e[1] = k)[2]

\* A map that keeps the first value set for a name.
MapSetKeepingFirst(m, k, v) ==
    IF k \in MapKeys(m) THEN m ELSE m \cup {<<k, v>>}

\* Map.prototype.set: a later value for a name replaces the earlier one.
MapSet(m, k, v) == {e \in m : e[1] # k} \cup {<<k, v>>}

\* paramNames.forEach((name, index) => params.set(name, match[index + 1]))
RECURSIVE SetAll(_, _, _, _)
SetAll(m, names, caps, i) ==
    IF i > Len(names) THEN m
    ELSE SetAll(MapSet(m, names[i], caps[i]), names, caps, i + 1)

\* extended.addRouteParams: every entry of the given map is set on req.params.
AddRouteParams(old, new) ==
    {e \in old : e[1] \notin MapKeys(new)} \cup new

(***************************************************************************)
(* RequestHandler.findPathHandlers.  entries are the method's patterns in  *)
(* the order of Object.keys; the first whose expression matches the url    *)
(* decides.  The result carries the handlers returned, req.params after    *)
(* the call, the pattern returned on and whether the call threw (new       *)
(* RegExp, on a pattern that is no regular expression).                    *)
(***************************************************************************)
NotFound(p) == [handlers |-> <<>>, params |-> p, path |-> NoPath, threw |-> FALSE]

RegExpThrew(p) == [handlers |-> <<>>, params |-> p, path |-> NoPath, threw |-> TRUE]

\* A scan that keeps looking after a match and returns on the last one.
RECURSIVE ScanPathsLastMatch(_, _, _, _)
ScanPathsLastMatch(entries, i, url, p) ==
    IF i > Len(entries) THEN NotFound(p)
    ELSE IF RegExpThrows(entries[i].path) THEN RegExpThrew(p)
    ELSE LET m    == UrlMatch(entries[i].path, url)
             rest == ScanPathsLastMatch(entries, i + 1, url, p)
         IN  IF rest.path # NoPath \/ rest.threw THEN rest
             ELSE IF m.ok
                  THEN [handlers |-> entries[i].handlers,
                        params   |-> AddRouteParams(p,
                                       SetAll(EmptyMap, ParamNamesOf(entries[i].path),
                                              m.caps, 1)),
                        path     |-> entries[i].path,
                        threw    |-> FALSE]
                  ELSE NotFound(p)

RECURSIVE ScanPaths(_, _, _, _)
ScanPaths(entries, i, url, p) ==
    IF i > Len(entries) THEN NotFound(p)
    ELSE IF RegExpThrows(entries[i].path) THEN RegExpThrew(p)
    ELSE LET m == UrlMatch(entries[i].path, url)
         IN  IF m.ok
             THEN [handlers |-> entries[i].handlers,
                   params   |-> AddRouteParams(p,
                                  SetAll(EmptyMap, ParamNamesOf(entries[i].path),
                                         m.caps, 1)),
                   path     |-> entries[i].path,
                   threw    |-> FALSE]
             ELSE ScanPaths(entries, i + 1, url, p)

\* A lookup that goes through the patterns of every method.
RECURSIVE AllEntries(_, _)
AllEntries(rts, ms) ==
    IF ms = {} THEN <<>>
    ELSE LET m == CHOOSE x \in ms : TRUE
         IN  rts[m] \o AllEntries(rts, ms \ {m})

FindPathHandlersAnyMethod(rts, method, url, p) ==
    IF method \notin DOMAIN rts THEN NotFound(p)
    ELSE ScanPaths(rts[method] \o AllEntries(rts, DOMAIN rts \ {method}), 1, url, p)

FindPathHandlers(rts, method, url, p) ==
    IF method \notin DOMAIN rts THEN NotFound(p)
    ELSE ScanPaths(rts[method], 1, url, p)

(***************************************************************************)
(* The response object (http.ServerResponse with the json extension).      *)
(* ended stands for "the headers and the body have been sent".             *)
(***************************************************************************)
NewRes == [statusCode |-> 200, ended |-> FALSE, body |-> "", contentType |-> "none"]

\* res.end(data): sends the response; a second end() sends nothing more.
ResEnd(r, data) ==
    IF r.ended THEN r ELSE [r EXCEPT !.ended = TRUE, !.body = data]

\* Values handed to res.json and what JSON.stringify makes of them: a string,
\* an exception (a circular structure, a BigInt) or undefined (undefined, a
\* function, a symbol), for which end(undefined) sends an empty body.
JsonValues == {"object", "array", "circular", "bigint", "undefined"}

Stringify(v) ==
    CASE v = "object"    -> [threw |-> FALSE, text |-> "{\"id\":1}"]
      [] v = "array"     -> [threw |-> FALSE, text |-> "[1,2]"]
      [] v = "undefined" -> [threw |-> FALSE, text |-> ""]
      [] OTHER           -> [threw |-> TRUE,  text |-> ""]

\* json without its try block: a failing JSON.stringify leaves json.
JsonWithoutCatch(r, v) ==
    IF r.ended THEN [res |-> r, threw |-> TRUE]
    ELSE LET r1 == [r EXCEPT !.contentType = "application/json"]
             s  == Stringify(v)
         IN  IF s.threw
             THEN [res |-> r1, threw |-> TRUE]
             ELSE [res |-> ResEnd(r1, s.text), threw |-> FALSE]

\* extended.json.  setHeader throws once the headers have been sent, outside
\* the try block; a failing JSON.stringify is caught and answered with 500.
Json(r, v) ==
    IF r.ended THEN [res |-> r, threw |-> TRUE]
    ELSE LET r1 == [r EXCEPT !.contentType = "application/json"]
             s  == Stringify(v)
         IN  IF s.threw
             THEN [res |-> ResEnd([r1 EXCEPT !.statusCode = 500],
                                  "Internal Server Error"),
                   threw |-> FALSE]
             ELSE [res |-> ResEnd(r1, s.text), threw |-> FALSE]

(***************************************************************************)
(* Handlers.  A HandlerFn is application code; the behaviours modelled are *)
(* those of the repository's example server and README (a logging          *)
(* middleware, a handler answering with res.json) and the failure the      *)
(* dispatcher has to cope with: a handler that throws.                     *)
(***************************************************************************)
\* use() is given a middleware function of its own each time it is called.
MiddlewareNames == <<"M1", "M2", "M3", "M4", "M5", "M6">>

HandlerNames == Range(MiddlewareNames) \cup {"H1", "H2", "HT"}

HandlerKind(h) ==
    CASE h = "H1" -> [k |-> "json",  v |-> "object"]
      [] h = "HT" -> [k |-> "throw", v |-> "none"]
      [] OTHER    -> [k |-> "pass",  v |-> "none"]

NoCall == [arg |-> "none", before |-> NewRes, threw |-> FALSE]

\* handler(this.req, this.res): one call, on the running state of a request.
CallHandler(h, st) ==
    LET kind == HandlerKind(h)
        st1  == [st EXCEPT !.invoked = Append(@, h)]
    IN  CASE kind.k = "json" ->
               LET j == Json(st.res, kind.v)
               IN  [st1 EXCEPT !.res = j.res, !.threw = j.threw,
                               !.json = [arg |-> kind.v, before |-> st.res,
                                         threw |-> j.threw]]
          [] kind.k = "throw" -> [st1 EXCEPT !.threw = TRUE]
          [] OTHER -> st1

\* A loop that goes on to the next handler after one has thrown.
RECURSIVE RunChainPastThrow(_, _, _)
RunChainPastThrow(handlers, i, st) ==
    IF i > Len(handlers) THEN st
    ELSE RunChainPastThrow(handlers, i + 1, CallHandler(handlers[i], st))

\* A loop that stops once a handler has sent the response.
RECURSIVE RunChainUntilEnded(_, _, _)
RunChainUntilEnded(handlers, i, st) ==
    IF i > Len(handlers) \/ st.res.ended THEN st
    ELSE LET st1 == CallHandler(handlers[i], st)
         IN  IF st1.threw THEN st1 ELSE RunChainUntilEnded(handlers, i + 1, st1)

\* handlers.forEach((handler) => handler(this.req, this.res)): in order, and
\* an exception thrown by a handler leaves the loop and handle().
RECURSIVE RunChain(_, _, _)
RunChain(handlers, i, st) ==
    IF i > Len(handlers) THEN st
    ELSE LET st1 == CallHandler(handlers[i], st)
         IN  IF st1.threw THEN st1 ELSE RunChain(handlers, i + 1, st1)

\* handle() on a response object left over from the request before.
HandleResultReusingResponse(rts, method, url) ==
    LET found == FindPathHandlers(rts, method, url, EmptyMap)
        st0   == [res |-> res, invoked |-> <<>>, threw |-> FALSE, json |-> NoCall]
        st    == IF found.threw THEN [st0 EXCEPT !.threw = TRUE]
                 ELSE IF Len(found.handlers) = 0
                 THEN [st0 EXCEPT !.res = ResEnd([res EXCEPT !.statusCode = 404],
                                                 "Not Found")]
                 ELSE RunChain(found.handlers, 1, st0)
    IN  [params |-> found.params, selected |-> found.path, res |-> st.res,
         invoked |-> st.invoked, threw |-> st.threw, json |-> st.json]

\* handle() on a parameter map shared by all requests.
HandleResultSharedParams(rts, method, url) ==
    LET found == FindPathHandlers(rts, method, url, params)
        st0   == [res |-> NewRes, invoked |-> <<>>, threw |-> FALSE, json |-> NoCall]
        st    == IF found.threw THEN [st0 EXCEPT !.threw = TRUE]
                 ELSE IF Len(found.handlers) = 0
                 THEN [st0 EXCEPT !.res = ResEnd([NewRes EXCEPT !.statusCode = 404],
                                                 "Not Found")]
                 ELSE RunChain(found.handlers, 1, st0)
    IN  [params |-> found.params, selected |-> found.path, res |-> st.res,
         invoked |-> st.invoked, threw |-> st.threw, json |-> st.json]

\* handle() without its not-found branch: an empty chain is "run".
HandleResultWithout404(rts, method, url) ==
    LET found == FindPathHandlers(rts, method, url, EmptyMap)
        st0   == [res |-> NewRes, invoked |-> <<>>, threw |-> FALSE, json |-> NoCall]
        st    == IF found.threw THEN [st0 EXCEPT !.threw = TRUE]
                 ELSE RunChain(found.handlers, 1, st0)
    IN  [params |-> found.params, selected |-> found.path, res |-> st.res,
         invoked |-> st.invoked, threw |-> st.threw, json |-> st.json]

\* RequestHandler.handle for one request, against the route table rts.
HandleResult(rts, method, url) ==
    LET found == FindPathHandlers(rts, method, url, EmptyMap)
        st0   == [res |-> NewRes, invoked |-> <<>>, threw |-> FALSE, json |-> NoCall]
        st    == IF found.threw THEN [st0 EXCEPT !.threw = TRUE]
                 ELSE IF Len(found.handlers) = 0
                 THEN [st0 EXCEPT !.res = ResEnd([NewRes EXCEPT !.statusCode = 404],
                                                 "Not Found")]
                 ELSE RunChain(found.handlers, 1, st0)
    IN  [params |-> found.params, selected |-> found.path, res |-> st.res,
         invoked |-> st.invoked, threw |-> st.threw, json |-> st.json]

(***************************************************************************)
(* App: the route table and the registration API.                          *)
(***************************************************************************)
\* The index of path among the method's keys, 0 when it is no key.
IndexOf(entries, path) ==
    IF \E i \in 1..Len(entries) : entries[i].path = path
    THEN CHOOSE i \in 1..Len(entries) : entries[i].path = path
    ELSE 0

\* A registration that overwrites the chain instead of pushing onto it.
RegisterMultipleHandlersReplacing(rts, method, path, handlers) ==
    LET entries == rts[method]
        i       == IndexOf(entries, path)
    IN  [rts EXCEPT ![method] =
            IF i = 0
            THEN Append(entries, [path |-> path, handlers |-> handlers])
            ELSE [entries EXCEPT ![i].handlers = handlers]]

\* App.registerMultipleHandlers: a missing or empty chain is set to [], then
\* the handlers are pushed.  A new key goes last in the key order; a key
\* that exists keeps its place.
RegisterMultipleHandlers(rts, method, path, handlers) ==
    LET entries == rts[method]
        i       == IndexOf(entries, path)
        reset   == IF i = 0
                   THEN Append(entries, [path |-> path, handlers |-> <<>>])
                   ELSE IF Len(entries[i].handlers) = 0
                        THEN [entries EXCEPT ![i].handlers = <<>>]
                        ELSE entries
        j       == IndexOf(reset, path)
    IN  [rts EXCEPT ![method] = [reset EXCEPT ![j].handlers = @ \o handlers]]

\* The arguments of the calls a behaviour makes.  get() registers /a with
\* every chain of HandlerArgs and each other pattern with one handler; the
\* other methods register one pattern each.
UseArgs == {<<MiddlewareNames[Len(useLog) + 1]>>}

HandlerArgs == {<<>>, <<"H1">>, <<"H2", "HT", "H1">>}

GetArgs ==
    ({PA} \X HandlerArgs) \cup ({PX} \X {<<"H2">>})
        \cup ({PXY, PXX, PAB} \X {<<"H1">>})

PostArgs == {PX} \X {<<"H1">>}

OtherArgs == {PA} \X {<<"H1">>}

\* The requests the transport delivers: <<method, url>>.
Urls == {UA, UAB, UASB}

Requests == ({"GET"} \X Urls) \cup ((ReqMethods \ {"GET"}) \X {UA})

RECURSIVE SumLen(_, _)
SumLen(f, S) ==
    IF S = {} THEN 0
    ELSE LET m == CHOOSE x \in S : TRUE
         IN  Len(f[m]) + SumLen(f, S \ {m})

\* The calls made so far: the registration calls and the use() calls.
Calls == SumLen(regLog, DOMAIN regLog) + Len(useLog)

\* No request is being looked at.
NoRequest ==
    /\ req' = NoReq
    /\ params' = EmptyMap
    /\ res' = NewRes
    /\ invoked' = <<>>
    /\ selected' = NoPath
    /\ outcome' = "idle"
    /\ jsonCall' = NoCall
    /\ earlier' = NoEarlier

Init ==
    /\ middlewares = <<>>
    /\ routes = [m \in Methods |-> <<>>]
    /\ useLog = <<>>
    /\ regLog = [m \in Methods |-> <<>>]
    /\ req = NoReq
    /\ params = EmptyMap
    /\ res = NewRes
    /\ invoked = <<>>
    /\ selected = NoPath
    /\ outcome = "idle"
    /\ jsonCall = NoCall
    /\ earlier = NoEarlier

\* App.use
Use(mws) ==
    /\ Calls < MaxCalls
    /\ Len(useLog) < Len(MiddlewareNames)
    /\ middlewares' = middlewares \o mws
    /\ useLog' = useLog \o mws
    /\ UNCHANGED <<routes, regLog>>
    /\ NoRequest

\* A registration that passes the route's own handlers without the middleware.
RegisterWithoutMiddlewares(method, path, handlers) ==
    /\ Calls < MaxCalls
    /\ routes' = RegisterMultipleHandlers(routes, method, path, handlers)
    /\ regLog' = [regLog EXCEPT ![method] =
                      Append(@, [path |-> path, handlers |-> handlers,
                                 used |-> Len(useLog)])]
    /\ UNCHANGED <<middlewares, useLog>>
    /\ NoRequest

\* The body shared by get, post, patch, put, delete and options.
Register(method, path, handlers) ==
    /\ Calls < MaxCalls
    /\ routes' = RegisterMultipleHandlers(routes, method, path,
                                          middlewares \o handlers)
    /\ regLog' = [regLog EXCEPT ![method] =
                      Append(@, [path |-> path, handlers |-> handlers,
                                 used |-> Len(useLog)])]
    /\ UNCHANGED <<middlewares, useLog>>
    /\ NoRequest

Get(path, handlers) == Register("GET", path, handlers)

Post(path, handlers) == Register("POST", path, handlers)

Patch(path, handlers) == Register("PATCH", path, handlers)

Put(path, handlers) == Register("PUT", path, handlers)

Delete(path, handlers) == Register("DELETE", path, handlers)

Options(path, handlers) == Register("OPTIONS", path, handlers)

\* A dispatcher that takes the selected pattern's chain out of the table.
HandleConsumingChain(method, url) ==
    \E r \in {HandleResult(routes, method, url)} :
        /\ req' = [method |-> method, url |-> url]
        /\ params' = r.params
        /\ res' = r.res
        /\ invoked' = r.invoked
        /\ selected' = r.selected
        /\ outcome' = IF r.threw THEN "threw" ELSE "returned"
        /\ jsonCall' = r.json
        /\ routes' = IF r.selected = NoPath THEN routes
                      ELSE [routes EXCEPT ![method] =
                               [@ EXCEPT ![IndexOf(@, r.selected)].handlers = <<>>]]
        /\ UNCHANGED <<middlewares, useLog, regLog, earlier>>

\* The server's request callback: new RequestHandler(req, res, routes).handle()
Handle(method, url) ==
    \E r \in {HandleResult(routes, method, url)} :
        /\ req' = [method |-> method, url |-> url]
        /\ params' = r.params
        /\ res' = r.res
        /\ invoked' = r.invoked
        /\ selected' = r.selected
        /\ outcome' = IF r.threw THEN "threw" ELSE "returned"
        /\ jsonCall' = r.json
        /\ UNCHANGED appVars
        /\ UNCHANGED earlier

Next ==
    \/ \E mws \in UseArgs : Use(mws)
    \/ \E a \in GetArgs : Get(a[1], a[2])
    \/ \E a \in PostArgs : Post(a[1], a[2])
    \/ \E a \in OtherArgs : Patch(a[1], a[2])
    \/ \E a \in OtherArgs : Put(a[1], a[2])
    \/ \E a \in OtherArgs : Delete(a[1], a[2])
    \/ \E a \in OtherArgs : Options(a[1], a[2])
    \/ \E r \in Requests : Handle(r[1], r[2])

Spec == Init /\ [][Next]_vars

(***************************************************************************)
(* res.json on its own: the response object starts in any state a handler  *)
(* can be handed, and json is called on it with each kind of value.        *)
(***************************************************************************)
ResStates ==
    {r \in [statusCode : {200, 201, 401, 404}, ended : BOOLEAN,
            body : {"", "sent"}, contentType : {"none", "text/html"}] :
        ~r.ended => r.body = ""}

InitJson ==
    /\ middlewares = <<>>
    /\ routes = [m \in Methods |-> <<>>]
    /\ useLog = <<>>
    /\ regLog = [m \in Methods |-> <<>>]
    /\ req = NoReq
    /\ params = EmptyMap
    /\ res \in ResStates
    /\ invoked = <<>>
    /\ selected = NoPath
    /\ outcome = "idle"
    /\ jsonCall = NoCall
    /\ earlier = NoEarlier

JsonCall(v) ==
    LET j == Json(res, v)
    IN  /\ res' = j.res
        /\ jsonCall' = [arg |-> v, before |-> res, threw |-> j.threw]
        /\ UNCHANGED appVars
        /\ UNCHANGED <<req, params, invoked, selected, outcome, earlier>>

NextJson == \E v \in JsonValues : JsonCall(v)

SpecJson == InitJson /\ [][NextJson]_vars

(***************************************************************************)
(* The serving phase on its own: the application has made its registration *)
(* calls (one of ServeSetups), and the server's callback runs for one      *)
(* request after another.  handle() is synchronous, so the callbacks of    *)
(* two requests run one after the other, in either order.  The first       *)
(* request's observation is remembered when the next one is served.        *)
(***************************************************************************)
Reg(method, path, handlers) ==
    [method |-> method, path |-> path, handlers |-> handlers]

\* The registration calls of an application, in program order.
ServeSetups ==
    { <<Reg("GET", PX, <<"H1">>), Reg("GET", PXY, <<"H1">>)>>,
      <<Reg("GET", PA, <<"H2", "HT", "H1">>), Reg("POST", PX, <<"H1">>)>>,
      <<Reg("GET", PXY, <<"H2">>), Reg("GET", PX, <<"H2">>),
        Reg("GET", PA, <<"H1">>)>> }

\* The route table after the first n calls of a setup.
RECURSIVE RoutesAfter(_, _)
RoutesAfter(setup, n) ==
    IF n = 0 THEN [m \in Methods |-> <<>>]
    ELSE RegisterMultipleHandlers(RoutesAfter(setup, n - 1), setup[n].method,
                                  setup[n].path, setup[n].handlers)

RECURSIVE RegLogAfter(_, _)
RegLogAfter(setup, n) ==
    IF n = 0 THEN [m \in Methods |-> <<>>]
    ELSE [RegLogAfter(setup, n - 1) EXCEPT ![setup[n].method] =
              Append(@, [path |-> setup[n].path, handlers |-> setup[n].handlers,
                         used |-> 0])]

InitServe ==
    \E setup \in ServeSetups :
        /\ middlewares = <<>>
        /\ routes = RoutesAfter(setup, Len(setup))
        /\ useLog = <<>>
        /\ regLog = RegLogAfter(setup, Len(setup))
        /\ req = NoReq
        /\ params = EmptyMap
        /\ res = NewRes
        /\ invoked = <<>>
        /\ selected = NoPath
        /\ outcome = "idle"
        /\ jsonCall = NoCall
        /\ earlier = NoEarlier

\* What the request just served got.
Observed ==
    [req |-> req, params |-> params, res |-> res, invoked |-> invoked,
     selected |-> selected, outcome |-> outcome]

\* The callback runs for the next request.
Serve(method, url) ==
    \E r \in {HandleResult(routes, method, url)} :
        /\ req' = [method |-> method, url |-> url]
        /\ params' = r.params
        /\ res' = r.res
        /\ invoked' = r.invoked
        /\ selected' = r.selected
        /\ outcome' = IF r.threw THEN "threw" ELSE "returned"
        /\ jsonCall' = r.json
        /\ earlier' = IF outcome # "idle" /\ earlier = NoEarlier
                       THEN Observed ELSE earlier
        /\ UNCHANGED appVars

NextServe == \E r \in Requests : Serve(r[1], r[2])

SpecServe == InitServe /\ [][NextServe]_vars

(***************************************************************************)
(* The matcher on its own: the application has registered one pattern      *)
(* under GET, a GET request has arrived, and the server's callback runs    *)
(* for it.  Patterns and urls are all the strings that begin with '/' and  *)
(* go on with up to MaxTail characters of MatchChars.                      *)
(***************************************************************************)
MatchChars == {"/", "a", ":", ".", "*"}

RECURSIVE StringsOf(_)
StringsOf(n) ==
    IF n = 0 THEN {<<>>}
    ELSE LET S == StringsOf(n - 1)
         IN  S \cup {Append(t, c) : t \in S, c \in MatchChars}

MatchPatterns == {<<"/">> \o t : t \in StringsOf(MaxTail)}

MatchUrls == {<<"/">> \o t : t \in StringsOf(MaxTail)}

InitMatch ==
    \E p \in MatchPatterns, u \in MatchUrls :
        /\ middlewares = <<>>
        /\ routes = RoutesAfter(<<Reg("GET", p, <<"H2">>)>>, 1)
        /\ useLog = <<>>
        /\ regLog = RegLogAfter(<<Reg("GET", p, <<"H2">>)>>, 1)
        /\ req = [method |-> "GET", url |-> u]
        /\ params = EmptyMap
        /\ res = NewRes
        /\ invoked = <<>>
        /\ selected = NoPath
        /\ outcome = "idle"
        /\ jsonCall = NoCall
        /\ earlier = NoEarlier

\* The callback runs for the request that has arrived.
HandleArrived ==
    /\ outcome = "idle"
    /\ req # NoReq
    /\ Handle(req.method, req.url)

NextMatch == HandleArrived

SpecMatch == InitMatch /\ [][NextMatch]_vars

(***************************************************************************)
(* Vocabulary of the properties.                                           *)
(***************************************************************************)
IsPrefix(s, t) == Len(s) <= Len(t) /\ s = SubSeq(t, 1, Len(s))

\* The registration calls made for pattern p under method m, as indices of
\* the method's history.
CallsFor(m, p) == {i \in 1..Len(regLog[m]) : regLog[m][i].path = p}

\* The patterns registered under method m.
Registered(m) == {regLog[m][i].path : i \in 1..Len(regLog[m])}

\* The entries of method m's table that hold pattern p.
EntriesFor(m, p) == {i \in 1..Len(routes[m]) : routes[m][i].path = p}

\* The chain stored for pattern p under method m.
ChainOf(m, p) == routes[m][CHOOSE i \in EntriesFor(m, p) : TRUE].handlers

\* What one registration call contributes according to the middleware
\* contract: the middleware passed to use() before it, then its handlers.
Contribution(c) == SubSeq(useLog, 1, c.used) \o c.handlers

\* The last step was handle().
Handled == outcome # "idle"

(***************************************************************************)
(* C1: a route registered by one call holds exactly the middleware passed  *)
(* to use() before that call, in use() order, followed by the call's own   *)
(* handlers; middleware passed to use() later is not in its chain.         *)
(***************************************************************************)
C1_MiddlewareSnapshot ==
    \A m \in Methods : \A p \in Registered(m) :
        Cardinality(CallsFor(m, p)) = 1 =>
            LET c == regLog[m][CHOOSE i \in CallsFor(m, p) : TRUE]
            IN  /\ Cardinality(EntriesFor(m, p)) = 1
                /\ ChainOf(m, p) = SubSeq(useLog, 1, c.used) \o c.handlers
                /\ \A k \in (c.used + 1)..Len(useLog) :
                       useLog[k] \notin Range(ChainOf(m, p))

\* use(M1); get('/a', H1); use(M2): the chain of /a is [M1, H1].
C1_Witness ==
    /\ useLog = <<"M1", "M2">>
    /\ Len(regLog["GET"]) = 1
    /\ regLog["GET"][1] = [path |-> PA, handlers |-> <<"H1">>, used |-> 1]
    /\ ChainOf("GET", PA) = <<"M1", "H1">>

(***************************************************************************)
(* C2: when patterns registered under the request's method match the url,  *)
(* dispatch returns on the one whose first registration is the earliest    *)
(* and calls handlers of that pattern's chain only, in chain order.        *)
(* "Matches" is the dispatcher's own match of the pattern against the url. *)
(***************************************************************************)
MatchingCalls(m, url) ==
    {i \in 1..Len(regLog[m]) : UrlMatch(regLog[m][i].path, url).ok}

EarliestMatch(m, url) == regLog[m][Min(MatchingCalls(m, url))].path

RECURSIVE Split(_, _)
Split(s, i) ==
    IF i > Len(s) + 1 THEN <<>>
    ELSE <<SubSeq(s, i, RunEnd(s, i))>> \o Split(s, RunEnd(s, i) + 2)

Segments(s) == Split(s, 1)

IsParamSegment(seg) == Len(seg) >= 2 /\ seg[1] = ":"

ParamPositions(p) ==
    {k \in 1..Len(Segments(p)) : IsParamSegment(Segments(p)[k])}

(***************************************************************************)
(* C3: the handlers of the selected pattern see a parameter set whose keys *)
(* are exactly the names the pattern declares, each with the url segment   *)
(* at the position of its declaring segment as value.                      *)
(***************************************************************************)
C3_ParamsByPosition ==
    (Handled /\ selected # NoPath) =>
        LET ps == Segments(selected)
            us == Segments(req.url)
        IN  /\ MapKeys(params) = {Tail(ps[k]) : k \in ParamPositions(selected)}
            /\ \A k \in ParamPositions(selected) :
                   /\ k <= Len(us)
                   /\ <<Tail(ps[k]), us[k]>> \in params

KindAt(chain, k) == HandlerKind(chain[k]).k

C5_ThrowGives500 ==
    (Handled /\ selected # NoPath) =>
        LET chain == ChainOf(req.method, selected)
        IN  \A k \in 1..Len(chain) :
                (KindAt(chain, k) = "throw"
                 /\ \A j \in 1..(k - 1) : KindAt(chain, j) = "pass") =>
                    /\ res.statusCode = 500
                    /\ res.ended
                    /\ res.body = "Internal Server Error"

(***************************************************************************)
(* C6: when the handler at position k of the matched chain throws, the     *)
(* handlers called are exactly those at positions 1..k, once each and in   *)
(* chain order; none after k is called.  A handler throws when it is a     *)
(* throwing handler, or when it calls res.json after an earlier handler    *)
(* has sent the response.                                                  *)
(***************************************************************************)
Throws(chain, k) ==
    \/ KindAt(chain, k) = "throw"
    \/ KindAt(chain, k) = "json" /\ \E j \in 1..(k - 1) : KindAt(chain, j) = "json"

C6_ThrowStopsChain ==
    (Handled /\ selected # NoPath) =>
        LET chain == ChainOf(req.method, selected)
        IN  \A k \in 1..Len(chain) :
                (Throws(chain, k) /\ \A j \in 1..(k - 1) : ~Throws(chain, j)) =>
                    invoked = SubSeq(chain, 1, k)

\* get('/a', H2, HT, H1); GET /a calls H2 and HT, and not H1.
C6_Witness ==
    /\ Handled
    /\ selected # NoPath
    /\ ChainOf(req.method, selected) = <<"H2", "HT", "H1">>
    /\ invoked = <<"H2", "HT">>

(***************************************************************************)
(* C7: handle() returns normally for every request: no error raised by a   *)
(* handler leaves it.                                                      *)
(***************************************************************************)
C7_HandleReturns == Handled => outcome = "returned"

(***************************************************************************)
(* C8: a pattern registered twice under a method has one entry.            *)
(* As claimed: its chain is the first call's handlers followed by the      *)
(* second call's, n1 + n2 long, and a dispatch runs all of them in order.  *)
(***************************************************************************)
FirstCall(m, p) == regLog[m][Min(CallsFor(m, p))]

SecondCall(m, p) == regLog[m][Max(CallsFor(m, p))]

C8_HandlersOnly ==
    \A m \in Methods : \A p \in Registered(m) :
        Cardinality(CallsFor(m, p)) = 2 =>
            /\ Cardinality(EntriesFor(m, p)) = 1
            /\ ChainOf(m, p) = FirstCall(m, p).handlers \o SecondCall(m, p).handlers
            /\ (Handled /\ req.method = m /\ selected = p) =>
                   invoked = ChainOf(m, p)

(***************************************************************************)
(* C8 as amended: the chain is the first call's middleware snapshot and    *)
(* handlers followed by the second call's middleware snapshot and          *)
(* handlers, (m1 + n1) + (m2 + n2) long; a dispatch calls them in that     *)
(* order, all of them unless one throws.                                   *)
(***************************************************************************)
C8_Accumulates ==
    \A m \in Methods : \A p \in Registered(m) :
        Cardinality(CallsFor(m, p)) = 2 =>
            LET c1 == FirstCall(m, p)
                c2 == SecondCall(m, p)
            IN  /\ Cardinality(EntriesFor(m, p)) = 1
                /\ ChainOf(m, p) = Contribution(c1) \o Contribution(c2)
                /\ Len(ChainOf(m, p)) =
                       (c1.used + Len(c1.handlers)) + (c2.used + Len(c2.handlers))
                /\ (Handled /\ req.method = m /\ selected = p) =>
                       /\ IsPrefix(invoked, ChainOf(m, p))
                       /\ outcome = "returned" => invoked = ChainOf(m, p)

\* use(M1); get('/a'); get('/a', H1); GET /a calls M1, M1, H1.
C8_Witness ==
    /\ Handled
    /\ req = [method |-> "GET", url |-> UA]
    /\ Cardinality(CallsFor("GET", PA)) = 2
    /\ FirstCall("GET", PA).used = 1
    /\ invoked = <<"M1", "M1", "H1">>
    /\ outcome = "returned"

(***************************************************************************)
(* C9: res.json.  As claimed: it always returns normally; a serializable   *)
(* value gives the JSON content type and the serialization as body, the    *)
(* status code unchanged; any other value gives status 500 and the body    *)
(* "Internal Server Error".                                                *)
(***************************************************************************)
Serializable(v) == v \in {"object", "array"}

JsonCalled == jsonCall.arg # "none"

C9_JsonAsClaimed ==
    JsonCalled =>
        /\ ~jsonCall.threw
        /\ res.ended
        /\ IF Serializable(jsonCall.arg)
           THEN /\ res.contentType = "application/json"
                /\ res.body = Stringify(jsonCall.arg).text
                /\ res.statusCode = jsonCall.before.statusCode
           ELSE /\ res.statusCode = 500
                /\ res.body = "Internal Server Error"

(***************************************************************************)
(* C9 as amended: on a response that has not been sent, json sets the JSON *)
(* content type and returns normally; a value JSON.stringify turns into a  *)
(* string is sent as body with the status code unchanged; a value on which *)
(* JSON.stringify throws gives status 500 and the body "Internal Server    *)
(* Error"; a value for which JSON.stringify returns undefined gives an     *)
(* empty body with the status code unchanged.  On a response that has been *)
(* sent json throws (setHeader) and changes nothing.                       *)
(***************************************************************************)
StringifyThrows(v) == v \in {"circular", "bigint"}

C9_Json ==
    JsonCalled =>
        LET b == jsonCall.before
            v == jsonCall.arg
        IN  IF b.ended
            THEN jsonCall.threw /\ res = b
            ELSE /\ ~jsonCall.threw
                 /\ res.ended
                 /\ res.contentType = "application/json"
                 /\ IF StringifyThrows(v)
                    THEN res.statusCode = 500 /\ res.body = "Internal Server Error"
                    ELSE /\ res.statusCode = b.statusCode
                         /\ res.body = IF Serializable(v) THEN Stringify(v).text ELSE ""

\* json(circular) on a response not yet sent: 500, and json returns.
C9_Witness ==
    /\ jsonCall.arg = "circular"
    /\ ~jsonCall.before.ended
    /\ jsonCall.before.statusCode = 201
    /\ ~jsonCall.threw
    /\ res.statusCode = 500
    /\ res.body = "Internal Server Error"

(***************************************************************************)
(* C10: under each of the seven methods of the route table the public      *)
(* registration API can register a route: while calls remain, some call    *)
(* of the API writes that method's table.                                  *)
(***************************************************************************)
C10_EveryMethodRegistrable ==
    Calls < MaxCalls =>
        \A m \in Methods : ENABLED (Next /\ routes'[m] # routes[m])

\* What the code does instead for HEAD: every HEAD request is not found.
HeadIsNeverDispatched ==
    (Handled /\ req.method = "HEAD") =>
        selected = NoPath /\ res.statusCode = 404 /\ routes["HEAD"] = <<>>

(***************************************************************************)
(* C11: two dispatches of the same method and url against the unchanged    *)
(* route table select the same pattern and call the same chain, extract    *)
(* the same parameter set and end with the same status and the same body.  *)
(***************************************************************************)
SameRequestAgain == Handled /\ earlier # NoEarlier /\ earlier.req = req

Extracted(p, url) ==
    IF p = NoPath THEN EmptyMap
    ELSE SetAll(EmptyMap, ParamNamesOf(p), UrlMatch(p, url).caps, 1)

C13_AllHandlersRun ==
    (Handled /\ selected # NoPath) =>
        LET chain == ChainOf(req.method, selected)
        IN  (\A k \in 1..Len(chain) : ~Throws(chain, k)) =>
                /\ invoked = chain
                /\ outcome = "returned"

\* get('/a', H1); use(M1); get('/a'): H1 sends the response, M1 is called
\* after it.
C13_Witness ==
    /\ Handled
    /\ selected = PA
    /\ ChainOf(req.method, selected) = <<"H1", "M1">>
    /\ invoked = <<"H1", "M1">>
    /\ res.ended
    /\ outcome = "returned"

(***************************************************************************)
(* C14: the matcher agrees with the segment rule.  A pattern matches a url *)
(* exactly when, both split on '/', they have the same number of segments, *)
(* every pattern segment that begins with ':' stands against a non-empty   *)
(* url segment, and every other pattern segment is equal to the url        *)
(* segment at its position.  With one pattern registered under the         *)
(* request's method, dispatch selects it exactly when the rule holds.      *)
(***************************************************************************)
BeginsWithColon(seg) == Len(seg) >= 1 /\ seg[1] = ":"

SegmentRule(p, url) ==
    LET ps == Segments(p)
        us == Segments(url)
    IN  /\ Len(ps) = Len(us)
        /\ \A k \in 1..Len(ps) :
               IF BeginsWithColon(ps[k]) THEN us[k] # <<>> ELSE ps[k] = us[k]

OnePattern == Handled /\ req.method \in Methods /\ Len(routes[req.method]) = 1

C14_MatcherIsSegmentRule ==
    OnePattern =>
        LET p == routes[req.method][1].path
        IN  (selected = p) <=> SegmentRule(p, req.url)

\* What the code does agree with the rule on: patterns whose parameter
\* segments are ':' and a name and whose other segments are made of plain
\* characters.
PlainPattern(p) ==
    \A k \in 1..Len(Segments(p)) :
        LET seg == Segments(p)[k]
        IN  IF BeginsWithColon(seg) THEN Len(seg) >= 2
            ELSE \A i \in 1..Len(seg) : seg[i] \notin {":", ".", "*"}

PlainPatternsFollowTheRule ==
    (OnePattern /\ PlainPattern(routes[req.method][1].path)) =>
        LET p == routes[req.method][1].path
        IN  (selected = p) <=> SegmentRule(p, req.url)

(***************************************************************************)
(* C15: a request whose url a pattern registered under its method matches  *)
(* is never answered 404 "Not Found": dispatch returns on a matching       *)
(* pattern and the not-found answer is kept for requests nothing matches.  *)
(* "Matches" is the dispatcher's own match, as in C2 and C4.               *)
(***************************************************************************)
AnsweredNotFound ==
    res.statusCode = 404 /\ res.ended /\ res.body = "Not Found"

C15_NotFoundOnlyWithoutMatch ==
    (Handled /\ req.method \in Methods
             /\ MatchingCalls(req.method, req.url) # {}) =>
        /\ selected # NoPath
        /\ ~AnsweredNotFound

\* What the code does: the not-found answer is given exactly when the chain
\* handed back by the lookup is empty, whether a pattern matched or not.
NotFoundIffEmptyChain ==
    (Handled /\ outcome = "returned") =>
        (AnsweredNotFound <=>
            (selected = NoPath \/ ChainOf(req.method, selected) = <<>>))

(***************************************************************************)
(* C16: the dispatcher does not write the route table.  A step that is     *)
(* handle(), whether the request is completed, not found or ends in a      *)
(* throwing handler, leaves every method's patterns, their order and their *)
(* chains, and the global middleware list, as they were.                   *)
(***************************************************************************)
C16_DispatchKeepsRoutes ==
    [][(outcome' # "idle") => (routes' = routes /\ middlewares' = middlewares)]_vars

\* use(M1); get('/a', H2, HT, H1); GET /a ends in the throwing handler, and
\* the chain is still in the table.
C16_Witness ==
    /\ Handled
    /\ outcome = "threw"
    /\ selected = PA
    /\ middlewares = <<"M1">>
    /\ ChainOf("GET", PA) = <<"M1", "H2", "HT", "H1">>

(***************************************************************************)
(* C17: routes are isolated by method.  Every handler dispatch calls for a *)
(* request was registered under the request's method, as a handler of a    *)
(* registration call or in the middleware snapshot of one; so a handler    *)
(* registered under another method only is never called, even when the     *)
(* url matches its pattern.                                                *)
(***************************************************************************)
\* The handlers registered under method m, middleware snapshots included.
RegisteredUnder(m) ==
    UNION {Range(Contribution(regLog[m][i])) : i \in 1..Len(regLog[m])}

C17_MethodIsolation ==
    Handled =>
        \A h \in Range(invoked) :
            req.method \in Methods /\ h \in RegisteredUnder(req.method)

\* get('/a', H1); use(M1); post('/:x', H1); GET /a: M1 is registered under
\* POST only, /:x matches /a, and M1 is not called.
C17_Witness ==
    /\ Handled
    /\ req = [method |-> "GET", url |-> UA]
    /\ Registered("POST") = {PX}
    /\ UrlMatch(PX, req.url).ok
    /\ "M1" \in RegisteredUnder("POST") \ RegisteredUnder("GET")
    /\ invoked = <<"H1">>

(***************************************************************************)
(* C18: a pattern that declares one parameter name in several segments is  *)
(* registered like any other; when it is selected, the parameter set has   *)
(* one entry for the name, whose value is the url segment at the position  *)
(* of the last segment that declares it.                                   *)
(***************************************************************************)
\* The positions of the segments of p that declare the name n.
Declaring(p, n) ==
    {k \in ParamPositions(p) : Tail(Segments(p)[k]) = n}

\* The names p declares in more than one segment.
RepeatedNames(p) ==
    {n \in {Tail(Segments(p)[k]) : k \in ParamPositions(p)} :
        Cardinality(Declaring(p, n)) > 1}

C18_LastWriteWins ==
    /\ \A m \in Methods : \A p \in Registered(m) :
           RepeatedNames(p) # {} => Cardinality(EntriesFor(m, p)) = 1
    /\ (Handled /\ selected # NoPath) =>
           \A n \in RepeatedNames(selected) :
               /\ Cardinality({e \in params : e[1] = n}) = 1
               /\ <<n, Segments(req.url)[Max(Declaring(selected, n))]>> \in params

\* get('/:x/:x', H1); GET /a/b: the handler sees {x: b}.
C18_Witness ==
    /\ Handled
    /\ selected = PXX
    /\ req.url = UASB
    /\ params = {<< <<"x">>, <<"b">> >>}
    /\ invoked = <<"H1">>

====
